---- MODULE Spec2Model ----
(***************************************************************************)
(* Request dispatch and transaction retry of nereid.application.Nereid.    *)
(*                                                                         *)
(* Under Spec one behaviour is one call of Nereid.dispatch_request for one *)
(* request.  The request, the retry setting and the tenant table are the   *)
(* inputs, fixed by Init; the view function, the signal observers, the     *)
(* template rendering and the database commit decide their outcome at the  *)
(* step where the code calls them.  Exceptions are those derived from      *)
(* Exception, the ones the except clauses of dispatch_request name.        *)
(*                                                                         *)
(* Under SpecWorkers two such calls run on two threads of the server and   *)
(* are interleaved step by step.  Under SpecApplication one behaviour is   *)
(* the life of one application object: construction, configuration,        *)
(* initialise, render_template.                                            *)
(***************************************************************************)
EXTENDS Integers, Sequences, FiniteSets, TLC

\* Largest value of CONFIG['retry'] the model explores.
MaxRetry == 2

\* The user id of the read-only tenant probe (application.py:300).
RootUser == 0

VARIABLES
    req,            \* the request: routing_exception, method, host, url_rule, view_args
    orig_view_args, \* req.view_args as the router produced it (history)
    CONFIG_retry,   \* CONFIG['retry']
    pc,             \* position in dispatch_request / _dispatch_request
    nextCount,      \* next value the iterator of range(retry, -1, -1) yields
    count,          \* loop variable of the retry loop
    tenant,         \* (user, company) read from the website in the probe
    txns,           \* stack of open top-level transactions of this thread
    exc,            \* exception in flight
    pending,        \* what the attempt does once its finally clause has run
    rv,             \* return value of _dispatch_request
    outcome,        \* how dispatch_request ended
    attempts,       \* number of read-write transactions opened so far (history)
    prelude,        \* events before the retry loop, in order (history)
    log,            \* events of the current attempt, in order (history)
    totals,         \* commits, rollbacks and signals of the whole dispatch (history)
    raised,         \* exceptions raised before the loop or in the current attempt (history)
    faults,         \* what has raised so far in the dispatch, in numbers (history)
    lastCall,       \* the latest arrival at the call of the resolved method (history)
    worker,         \* the thread that is running
    parked,         \* what belongs to the dispatch of the thread that is not running
    app,            \* the Nereid application object: its config and what initialise sets
    app_pc,         \* position in the life of the application object
    app_exc,        \* the exception initialise raised
    lazy,           \* the LazyRenderer the latest render_template returned
    mtl,            \* the ModuleTemplateLoader: _loaders and searchpath
    modules,        \* the modules: installed in the database, with a templates folder, eggs
    access,         \* for each thread, its access to ModuleTemplateLoader.loaders
    environment,    \* the jinja environment: fragment_cache_prefix, fragment_cache
    entries,        \* what the fragment cache holds: key -> value and timeout
    fragment,       \* the latest call of _cache_support and what it returned
    renders,        \* how many times the body of a cache block was rendered
    first_miss      \* key -> the value rendered when the entry it has was made

\* one call of dispatch_request
dispatch == << req, orig_view_args, CONFIG_retry, pc, nextCount, count, tenant, txns,
               exc, pending, rv, outcome, attempts, prelude, log, totals, raised,
               faults, lastCall >>

\* the threads of the server
threads == << worker, parked >>

\* the application object and its templates
application == << app, app_pc, app_exc, lazy >>

\* the template loader of the application
loader == << mtl, modules, access >>

\* the fragment cache of the templates
fragments == << environment, entries, fragment, renders, first_miss >>

\* what no step of dispatch_request touches
rest == << threads, application, loader, fragments >>

\* what the scheduling of the threads does not touch
beyondThreads == << application, loader, fragments >>

\* what no step of the application object touches
beyondApplication == << dispatch, threads, loader, fragments >>

\* what no access to the loaders touches
beyondLoader == << dispatch, threads, application, fragments >>

\* what no use of the fragment cache touches
beyondFragments == << dispatch, threads, application, loader >>

vars == << dispatch, rest >>

\* the inputs that never change
config == << orig_view_args, CONFIG_retry >>

-----------------------------------------------------------------------------
\* Values

NoExc == [kind |-> "none", by |-> "none", att |-> 0]

\* An exception of class kind raised by component by during attempt att.
Exc(kind, by, att) == [kind |-> kind, by |-> by, att |-> att]

NoValue == [form |-> "none", att |-> 0]

\* A value of the given form produced by the view function in attempt att.
Value(form, att) == [form |-> form, att |-> att]

NoRule == [endpoint |-> "none", provide_automatic_options |-> FALSE]

NoCall == [att |-> 0, called |-> FALSE, positional |-> "none", kwargs |-> << >>]

\* Endpoints of the URL map, by how _dispatch_request resolves them.
Endpoints == { "registered_function", "registered_unbound_method",
               "model_static_method", "model_instance_method",
               "missing_model", "missing_method" }

\* endpoint in self.view_functions
IsRegistered(e) == e \in {"registered_function", "registered_unbound_method"}

\* Pool().get(model) finds the model
ModelExists(e) == e # "missing_model"

\* getattr(Model, method) finds the attribute
MethodExists(e) == e \notin {"missing_model", "missing_method"}

\* Mutant: the test is reduced to "not hasattr(meth, 'im_self')", so that a
\* method bound to its class counts as an instance method.
IsStaticOrClassMethodWithoutImSelf(e) == e = "registered_function"

\* not hasattr(meth, 'im_self') or meth.im_self
IsStaticOrClassMethod(e) == e \in {"registered_function", "model_static_method"}

\* The value the router gives each key of view_args.
ArgValue(k) == CASE k = "locale" -> "en_US"
                 [] k = "active_id" -> "42"
                 [] OTHER -> "widget"

\* dict.pop(k, None) / the dict left by dict.pop(k)
Pop(d, k) == [x \in (DOMAIN d) \ {k} |-> d[x]]

ViewArgs(keys) == [k \in keys |-> ArgValue(k)]

\* The events counted over the whole dispatch.
Counted == {"commit", "rollback", "transaction_start", "transaction_stop"}

\* Event ev happens in the current attempt.
Note(ev) ==
    /\ log' = Append(log, ev)
    /\ totals' = IF ev \in Counted THEN [totals EXCEPT ![ev] = @ + 1] ELSE totals

\* Exception e is raised.
Raise(e) ==
    /\ exc' = e
    /\ raised' = Append(raised, e)
    /\ faults' =
         [ handlerTransients |->
             faults.handlerTransients
               + (IF e.by = "handler" /\ e.kind = "transient" THEN 1 ELSE 0),
           tryTransients |->
             faults.tryTransients
               + (IF e.by # "transaction_stop" /\ e.kind = "transient" THEN 1 ELSE 0),
           commitTransients |->
             faults.commitTransients
               + (IF e.by = "commit" /\ e.kind = "transient" THEN 1 ELSE 0),
           environment |->
             \/ faults.environment
             \/ e.by \in {"transaction_start", "transaction_stop", "commit", "render"} ]

NoRaise == UNCHANGED << exc, raised, faults >>

-----------------------------------------------------------------------------
\* Decisions of dispatch_request

\* Mutant: the automatic reply is tied to the wrong method.
AutomaticOptionsWrongMethod(rule, method) ==
    rule.provide_automatic_options /\ method = "HEAD"

\* getattr(rule, 'provide_automatic_options', False) and req.method == 'OPTIONS'
AutomaticOptions(rule, method) == rule.provide_automatic_options /\ method = "OPTIONS"

\* range(int(CONFIG['retry']), -1, -1): the first value of the loop variable
RangeStart(n) == n

\* range(.., -1, -1) yields c as long as c is above the stop value -1
RangeHasNext(c) == c > -1

\* Mutant: every exception is taken for the transient one.
IsTransientAnyError(e) == e.kind \in {"transient", "other"}

\* except DatabaseOperationalError
IsTransient(e) == e.kind = "transient"

\* Mutant: the last retry of the budget is not made.
ShouldRetryOffByOne(c) == c > 1

\* if count: continue
ShouldRetry(c) == c # 0

\* Transaction().start(database, user, readonly, context)
NewTransaction(user, readonly, context) ==
    [database |-> "database_name", user |-> user, readonly |-> readonly,
     context |-> << context >>]

\* Transaction().set_context(language=language): one more context layer on the
\* current transaction
WithContext(t, layer) == [t EXCEPT !.context = Append(@, layer)]

\* leaving the set_context block drops the layer again
WithoutContext(t) == [t EXCEPT !.context = SubSeq(@, 1, Len(@) - 1)]

\* Mutant: the instance branch pops 'active_id' with a default and calls the
\* method also when the key is absent.
CallOfDefaultsActiveId(e, args) ==
    IF IsStaticOrClassMethod(e)
    THEN [called |-> TRUE, positional |-> "none", kwargs |-> args]
    ELSE [called |-> TRUE,
          positional |-> IF "active_id" \in DOMAIN args THEN args["active_id"]
                         ELSE "None",
          kwargs |-> Pop(args, "active_id")]

\* Mutant: the instance branch reads 'active_id' without popping it.
CallOfKeepsActiveId(e, args) ==
    IF IsStaticOrClassMethod(e)
    THEN [called |-> TRUE, positional |-> "none", kwargs |-> args]
    ELSE IF "active_id" \in DOMAIN args
         THEN [called |-> TRUE, positional |-> args["active_id"], kwargs |-> args]
         ELSE [called |-> FALSE, positional |-> "none", kwargs |-> args]

\* The keyword arguments and the positional argument of the call at lines 354-362.
CallOf(e, args) ==
    IF IsStaticOrClassMethod(e)
    THEN [called |-> TRUE, positional |-> "none", kwargs |-> args]
    ELSE IF "active_id" \in DOMAIN args
         THEN [called |-> TRUE, positional |-> args["active_id"],
               kwargs |-> Pop(args, "active_id")]
         ELSE [called |-> FALSE, positional |-> "none", kwargs |-> args]

\* req.view_args after lines 354-362
ArgsAfterCall(e, args) ==
    IF IsStaticOrClassMethod(e) THEN args ELSE Pop(args, "active_id")

-----------------------------------------------------------------------------
\* The application object

\* no LazyRenderer yet
NoLazy == [template_name_or_list |-> "none", names |-> << >>]

\* Nereid.__init__: the application object as the constructor leaves it.
\* SECRET_KEY is the default of flask; the other keys are those of the
\* config.update of lines 140-149 that the model follows; set holds the keys
\* set after construction.
Constructed ==
    [ config |-> [ SECRET_KEY |-> "None",
                   TEMPLATE_PREFIX_WEBSITE_NAME |-> TRUE,
                   CACHE_TYPE |-> "werkzeug.contrib.cache.NullCache" ],
      set |-> {},
      cache |-> [backend |-> "none", arguments |-> << >>],
      view_functions |-> {},
      database |-> "none",
      pool |-> "none",
      template_context_processors |-> << "_default_template_ctx_processor" >>,
      initialised |-> FALSE ]

\* no application object is followed
NoApplication ==
    /\ app = Constructed
    /\ app_pc = "none"
    /\ app_exc = "none"
    /\ lazy = NoLazy

-----------------------------------------------------------------------------
\* The template loader

\* The threads that load templates.
LoaderThreads == {"t1", "t2"}

\* list(create_graph(get_module_list())[0]): the modules in the order of the
\* module graph, a module after those it depends on
ModuleGraph == << "ir", "nereid", "nereid_catalog" >>

\* a thread that has not touched the loaders
NoAccess ==
    [ pc |-> "idle", computes |-> FALSE, installed_module_list |-> {},
      packages |-> << >>, i |-> 0, result |-> << >> ]

\* no template loader is followed
NoLoader ==
    /\ mtl = [ _loaders |-> [is_None |-> TRUE, items |-> << >>], searchpath |-> "None" ]
    /\ modules = [installed |-> {}, with_templates |-> {}, eggs |-> {}]
    /\ access = [t \in LoaderThreads |-> NoAccess]

\* The bound of the number of times the body of a cache block is rendered.
MaxRenders == 3

\* no call of _cache_support yet; of a call: its key, whether the cache had
\* the key, the arguments of the call of add if it made one, the value returned
NoFragment ==
    [ key |-> << >>, name |-> "none", timeout |-> "none", hit |-> FALSE,
      added |-> << >>, returned |-> [body |-> "none", version |-> 0] ]

\* no fragment cache is followed
NoFragments ==
    /\ environment = [fragment_cache_prefix |-> << >>, fragment_cache |-> "None"]
    /\ entries = << >>
    /\ fragment = NoFragment
    /\ renders = 0
    /\ first_miss = << >>

-----------------------------------------------------------------------------
\* The request handed to dispatch_request

Requests ==
    { [routing_exception |-> r, method |-> m, host |-> h, url_rule |-> NoRule,
       view_args |-> ViewArgs({})] :
         r \in {"NotFound", "MethodNotAllowed"}, m \in {"GET", "OPTIONS"},
         h \in {"known", "unknown"} }
    \cup
    { [routing_exception |-> "None", method |-> m, host |-> h,
       url_rule |-> [endpoint |-> e, provide_automatic_options |-> o],
       view_args |-> ViewArgs(ks)] :
         m \in {"GET", "OPTIONS"}, h \in {"known", "unknown"}, e \in Endpoints,
         o \in BOOLEAN, ks \in { {"q"} \cup x : x \in SUBSET {"locale", "active_id"} } }

\* The website of a known host: its application user and its company.
Website == [user |-> "application_user", company |-> "company"]

Init ==
    /\ req \in Requests
    /\ orig_view_args = req.view_args
    /\ CONFIG_retry \in -1..MaxRetry
    /\ pc = "dispatch_request"
    /\ nextCount = 0
    /\ count = 0
    /\ tenant = [user |-> "none", company |-> "none"]
    /\ txns = << >>
    /\ exc = NoExc
    /\ pending = "none"
    /\ rv = NoValue
    /\ outcome = [kind |-> "running", exc |-> NoExc, rv |-> NoValue]
    /\ attempts = 0
    /\ prelude = << >>
    /\ log = << >>
    /\ totals = [ev \in Counted |-> 0]
    /\ raised = << >>
    /\ faults = [handlerTransients |-> 0, tryTransients |-> 0, commitTransients |-> 0,
                 environment |-> FALSE]
    /\ lastCall = NoCall
    /\ worker = "w1"
    /\ parked = << >>
    /\ NoApplication
    /\ NoLoader
    /\ NoFragments

Returned(v) == [kind |-> "returned", exc |-> NoExc, rv |-> v]
Raised(e) == [kind |-> "raised", exc |-> e, rv |-> NoValue]

-----------------------------------------------------------------------------
\* dispatch_request, lines 287-304

\* Mutant: the routing exception is not looked at.
CheckRoutingIgnored ==
    /\ pc = "dispatch_request"
    /\ pc' = "options"
    /\ NoRaise
    /\ UNCHANGED << rest, req, config, tenant, nextCount, count, txns, pending, rv, outcome,
                    attempts, prelude, log, totals, lastCall >>

\* if req.routing_exception is not None: self.raise_routing_exception(req)
CheckRouting ==
    /\ pc = "dispatch_request"
    /\ IF req.routing_exception # "None"
       THEN /\ pc' = "done"
            /\ Raise(Exc(req.routing_exception, "router", 0))
            /\ outcome' = Raised(Exc(req.routing_exception, "router", 0))
       ELSE /\ pc' = "options"
            /\ NoRaise
            /\ UNCHANGED outcome
    /\ UNCHANGED << rest, req, config, tenant, nextCount, count, txns, pending, rv,
                    attempts, prelude, log, totals, lastCall >>

\* the automatic OPTIONS reply
CheckOptions ==
    /\ pc = "options"
    /\ IF AutomaticOptions(req.url_rule, req.method)
       THEN /\ pc' = "done"
            /\ outcome' = Returned(Value("default_options_response", 0))
       ELSE /\ pc' = "cache_clean"
            /\ UNCHANGED outcome
    /\ NoRaise
    /\ UNCHANGED << rest, req, config, tenant, nextCount, count, txns, pending, rv,
                    attempts, prelude, log, totals, lastCall >>

\* Cache.clean(self.database_name)
CacheClean ==
    /\ pc = "cache_clean"
    /\ prelude' = Append(prelude, "cache_clean")
    /\ pc' = "probe_start"
    /\ NoRaise
    /\ UNCHANGED << rest, req, config, tenant, nextCount, count, txns, pending, rv, outcome,
                    attempts, log, totals, lastCall >>

\* with Transaction().start(self.database_name, 0, readonly=True):
ProbeStart ==
    /\ pc = "probe_start"
    /\ txns' = Append(txns, NewTransaction(RootUser, TRUE, [company |-> "none"]))
    /\ prelude' = Append(prelude, "probe_open")
    /\ pc' = "probe_lookup"
    /\ NoRaise
    /\ UNCHANGED << rest, req, config, tenant, nextCount, count, pending, rv, outcome,
                    attempts, log, totals, lastCall >>

\* website = Website.get_from_host(req.host)
\* user, company = website.application_user.id, website.company.id
ProbeLookup ==
    /\ pc = "probe_lookup"
    /\ prelude' = Append(prelude, "tenant_lookup")
    /\ IF req.host = "known"
       THEN /\ tenant' = Website
            /\ NoRaise
       ELSE /\ Raise(Exc("lookup", "get_from_host", 0))
            /\ UNCHANGED tenant
    /\ pc' = "probe_exit"
    /\ UNCHANGED << rest, req, config, nextCount, count, txns, pending, rv, outcome,
                    attempts, log, totals, lastCall >>

\* Mutant: the error of the lookup is swallowed and the loop is entered.
ProbeExitSwallowsError ==
    /\ pc = "probe_exit"
    /\ txns' = SubSeq(txns, 1, Len(txns) - 1)
    /\ prelude' = Append(prelude, "probe_release")
    /\ pc' = "loop"
    /\ nextCount' = RangeStart(CONFIG_retry)
    /\ NoRaise
    /\ UNCHANGED << rest, req, config, tenant, count, pending, rv, outcome, attempts, log,
                    totals, lastCall >>

\* Mutant: the probe transaction is started without a with block and stays open.
ProbeExitLeavesOpen ==
    /\ pc = "probe_exit"
    /\ prelude' = Append(prelude, "probe_release")
    /\ IF exc # NoExc
       THEN /\ pc' = "done"
            /\ outcome' = Raised(exc)
            /\ UNCHANGED nextCount
       ELSE /\ pc' = "loop"
            /\ nextCount' = RangeStart(CONFIG_retry)
            /\ UNCHANGED outcome
    /\ NoRaise
    /\ UNCHANGED << rest, req, config, tenant, count, txns, pending, rv, attempts, log, totals,
                    lastCall >>

\* leaving the with block of the probe: Transaction().stop()
ProbeExit ==
    /\ pc = "probe_exit"
    /\ txns' = SubSeq(txns, 1, Len(txns) - 1)
    /\ prelude' = Append(prelude, "probe_release")
    /\ IF exc # NoExc
       THEN /\ pc' = "done"
            /\ outcome' = Raised(exc)
            /\ UNCHANGED nextCount
       ELSE /\ pc' = "loop"
            /\ nextCount' = RangeStart(CONFIG_retry)
            /\ UNCHANGED outcome
    /\ NoRaise
    /\ UNCHANGED << rest, req, config, tenant, count, pending, rv, attempts, log, totals,
                    lastCall >>

-----------------------------------------------------------------------------
\* dispatch_request, the retry loop, lines 306-329

\* Mutant: the cache is cleaned at the head of the loop, for every attempt.
LoopNextCleansCache ==
    /\ pc = "loop"
    /\ IF RangeHasNext(nextCount)
       THEN /\ count' = nextCount
            /\ nextCount' = nextCount - 1
            /\ prelude' = Append(prelude, "cache_clean")
            /\ pc' = "txn_start"
            /\ UNCHANGED outcome
       ELSE /\ pc' = "done"
            /\ outcome' = Returned(NoValue)
            /\ UNCHANGED << count, nextCount, prelude >>
    /\ NoRaise
    /\ UNCHANGED << rest, req, config, tenant, txns, pending, rv, attempts, log, totals,
                    lastCall >>

\* for count in range(int(CONFIG['retry']), -1, -1):
\* an exhausted range leaves the loop and the function returns None
LoopNext ==
    /\ pc = "loop"
    /\ IF RangeHasNext(nextCount)
       THEN /\ count' = nextCount
            /\ nextCount' = nextCount - 1
            /\ pc' = "txn_start"
            /\ UNCHANGED outcome
       ELSE /\ pc' = "done"
            /\ outcome' = Returned(NoValue)
            /\ UNCHANGED << count, nextCount >>
    /\ NoRaise
    /\ UNCHANGED << rest, req, config, tenant, txns, pending, rv, attempts, prelude, log,
                    totals,
                    lastCall >>

\* Mutant: the attempt's context does not carry the company the probe read.
TxnStartWithoutCompany ==
    /\ pc = "txn_start"
    /\ attempts' = attempts + 1
    /\ txns' = Append(txns, NewTransaction(tenant.user, FALSE,
                                           [company |-> "none"]))
    /\ log' = << "open" >>
    /\ exc' = NoExc
    /\ raised' = << >>
    /\ pending' = "none"
    /\ rv' = NoValue
    /\ pc' = "transaction_start"
    /\ UNCHANGED << rest, req, config, tenant, nextCount, count, outcome, prelude, totals,
                    faults,
                    lastCall >>

\* with Transaction().start(self.database_name, user,
\*                          context={'company': company}) as txn:
\* the user and the company are those the probe read from the website
TxnStart ==
    /\ pc = "txn_start"
    /\ attempts' = attempts + 1
    /\ txns' = Append(txns, NewTransaction(tenant.user, FALSE,
                                           [company |-> tenant.company]))
    /\ log' = << "open" >>
    /\ exc' = NoExc
    /\ raised' = << >>
    /\ pending' = "none"
    /\ rv' = NoValue
    /\ pc' = "transaction_start"
    /\ UNCHANGED << rest, req, config, tenant, nextCount, count, outcome, prelude, totals,
                    faults,
                    lastCall >>

\* transaction_start.send(self): an observer may raise
SendTransactionStart ==
    /\ pc = "transaction_start"
    /\ Note("transaction_start")
    /\ \E o \in {"ok", "transient", "other"} :
         IF o = "ok"
         THEN /\ pc' = "set_context"
              /\ NoRaise
         ELSE /\ pc' = "except"
              /\ Raise(Exc(o, "transaction_start", attempts))
    /\ UNCHANGED << rest, req, config, tenant, nextCount, count, txns, pending, rv, outcome,
                    attempts, prelude, lastCall >>

\* Mutant: the commit is left out.
CommitForgotten ==
    /\ pc = "commit"
    /\ pc' = "else"
    /\ NoRaise
    /\ UNCHANGED << rest, req, config, tenant, nextCount, count, txns, pending, rv, outcome,
                    attempts, prelude, log, totals, lastCall >>

\* txn.cursor.commit(): the database may refuse it
Commit ==
    /\ pc = "commit"
    /\ \E o \in {"ok", "transient", "other"} :
         IF o = "ok"
         THEN /\ Note("commit")
              /\ pc' = "else"
              /\ NoRaise
         ELSE /\ pc' = "except"
              /\ Raise(Exc(o, "commit", attempts))
              /\ UNCHANGED << log, totals >>
    /\ UNCHANGED << rest, req, config, tenant, nextCount, count, txns, pending, rv, outcome,
                    attempts, prelude, lastCall >>

\* Mutant: the except clauses do not roll back.
ExceptNoRollback ==
    /\ pc = "except"
    /\ pending' = IF IsTransient(exc) /\ ShouldRetry(count) THEN "continue" ELSE "raise"
    /\ pc' = "transaction_stop"
    /\ NoRaise
    /\ UNCHANGED << rest, req, config, tenant, nextCount, count, txns, rv, outcome, attempts,
                    prelude, log, totals, lastCall >>

\* except DatabaseOperationalError: rollback; if count: continue; raise
\* except Exception: rollback; raise
Except ==
    /\ pc = "except"
    /\ Note("rollback")
    /\ pending' = IF IsTransient(exc) /\ ShouldRetry(count) THEN "continue" ELSE "raise"
    /\ pc' = "transaction_stop"
    /\ NoRaise
    /\ UNCHANGED << rest, req, config, tenant, nextCount, count, txns, rv, outcome, attempts,
                    prelude, lastCall >>

\* Mutant: transaction_stop is sent by the except clauses only, not in a finally.
ElseSkipsStop ==
    /\ pc = "else"
    /\ pending' = "return"
    /\ pc' = "txn_exit"
    /\ NoRaise
    /\ UNCHANGED << rest, req, config, tenant, nextCount, count, txns, rv, outcome, attempts,
                    prelude, log, totals, lastCall >>

\* else: return rv
Else ==
    /\ pc = "else"
    /\ pending' = "return"
    /\ pc' = "transaction_stop"
    /\ NoRaise
    /\ UNCHANGED << rest, req, config, tenant, nextCount, count, txns, rv, outcome, attempts,
                    prelude, log, totals, lastCall >>

\* finally: transaction_stop.send(self)
\* an exception of an observer replaces the pending continue, return or raise
SendTransactionStop ==
    /\ pc = "transaction_stop"
    /\ Note("transaction_stop")
    /\ \E o \in {"ok", "transient", "other"} :
         IF o = "ok"
         THEN /\ NoRaise
              /\ UNCHANGED pending
         ELSE /\ Raise(Exc(o, "transaction_stop", attempts))
              /\ pending' = "raise"
    /\ pc' = "txn_exit"
    /\ UNCHANGED << rest, req, config, tenant, nextCount, count, txns, rv, outcome, attempts,
                    prelude, lastCall >>

\* leaving the with block of the attempt: Transaction().stop(), then the
\* pending continue, return or raise takes effect
TxnExit ==
    /\ pc = "txn_exit"
    /\ txns' = SubSeq(txns, 1, Len(txns) - 1)
    /\ Note("release")
    /\ CASE pending = "continue" ->
              /\ pc' = "loop"
              /\ UNCHANGED outcome
         [] pending = "return" ->
              /\ pc' = "done"
              /\ outcome' = Returned(rv)
         [] OTHER ->
              /\ pc' = "done"
              /\ outcome' = Raised(exc)
    /\ NoRaise
    /\ UNCHANGED << rest, req, config, tenant, nextCount, count, pending, rv, attempts, prelude,
                    lastCall >>

-----------------------------------------------------------------------------
\* _dispatch_request, lines 336-367

\* language = 'en_US' or the language of the website's locale;
\* with Transaction().set_context(language=language):
SetContext ==
    /\ pc = "set_context"
    /\ \E language \in {"en_US", "website_language"} :
         txns' = [txns EXCEPT ![Len(txns)] = WithContext(@, [language |-> language])]
    /\ Note("set_context")
    /\ pc' = "pop_locale"
    /\ NoRaise
    /\ UNCHANGED << rest, req, config, tenant, nextCount, count, pending, rv, outcome, attempts,
                    prelude, lastCall >>

\* Mutant: 'locale' is left in view_args.
PopLocaleForgotten ==
    /\ pc = "pop_locale"
    /\ pc' = "resolve"
    /\ NoRaise
    /\ UNCHANGED << rest, req, config, tenant, nextCount, count, txns, pending, rv, outcome,
                    attempts, prelude, log, totals, lastCall >>

\* req.view_args.pop('locale', None)
PopLocale ==
    /\ pc = "pop_locale"
    /\ req' = [req EXCEPT !.view_args = Pop(@, "locale")]
    /\ pc' = "resolve"
    /\ NoRaise
    /\ UNCHANGED << rest, config, tenant, nextCount, count, txns, pending, rv, outcome,
                    attempts,
                    prelude, log, totals, lastCall >>

\* if req.url_rule.endpoint in self.view_functions: meth = ...
\* else: meth = getattr(Pool().get(model), method)
Resolve ==
    /\ pc = "resolve"
    /\ IF IsRegistered(req.url_rule.endpoint) \/ MethodExists(req.url_rule.endpoint)
       THEN /\ pc' = "call"
            /\ NoRaise
       ELSE /\ pc' = "context_exit"
            /\ Raise(Exc("other",
                         IF ModelExists(req.url_rule.endpoint) THEN "getattr"
                         ELSE "Pool.get", attempts))
    /\ UNCHANGED << rest, req, config, tenant, nextCount, count, txns, pending, rv, outcome,
                    attempts, prelude, log, totals, lastCall >>

\* if not hasattr(meth, 'im_self') or meth.im_self: result = meth(**req.view_args)
\* else: i = model(req.view_args.pop('active_id')); result = meth(i, **req.view_args)
\* the view function returns a value or a LazyRenderer, or raises
Call ==
    /\ pc = "call"
    /\ LET e == req.url_rule.endpoint
           c == CallOf(e, req.view_args)
       IN /\ lastCall' = [att |-> attempts, called |-> c.called,
                          positional |-> c.positional, kwargs |-> c.kwargs]
          /\ req' = [req EXCEPT !.view_args = ArgsAfterCall(e, @)]
          /\ IF ~c.called
             THEN /\ Raise(Exc("other", "pop_active_id", attempts))
                  /\ pc' = "context_exit"
                  /\ UNCHANGED << rv, log, totals >>
             ELSE /\ Note("call")
                  /\ \E o \in {"ok", "transient", "other"} :
                       IF o = "ok"
                       THEN /\ \E form \in {"value", "LazyRenderer"} :
                                 rv' = Value(form, attempts)
                            /\ pc' = "lazy"
                            /\ NoRaise
                       ELSE /\ Raise(Exc(o, "handler", attempts))
                            /\ pc' = "context_exit"
                            /\ UNCHANGED rv
    /\ UNCHANGED << rest, config, tenant, nextCount, count, txns, pending, outcome, attempts,
                    prelude >>

\* Mutant: the result is handed on as the view function returned it.
ForceLazyForgotten ==
    /\ pc = "lazy"
    /\ pc' = "context_exit"
    /\ NoRaise
    /\ UNCHANGED << rest, req, config, tenant, nextCount, count, txns, pending, rv, outcome,
                    attempts, prelude, log, totals, lastCall >>

\* if isinstance(result, LazyRenderer): result = unicode(result)
\* rendering the template may raise
ForceLazy ==
    /\ pc = "lazy"
    /\ IF rv.form = "LazyRenderer"
       THEN \E o \in {"ok", "transient", "other"} :
              IF o = "ok"
              THEN /\ rv' = Value("unicode", rv.att)
                   /\ NoRaise
              ELSE /\ Raise(Exc(o, "render", attempts))
                   /\ rv' = NoValue
       ELSE /\ NoRaise
            /\ UNCHANGED rv
    /\ pc' = "context_exit"
    /\ UNCHANGED << rest, req, config, tenant, nextCount, count, txns, pending, outcome,
                    attempts,
                    prelude, log, totals, lastCall >>

\* leaving the set_context block, by return or by exception
ContextExit ==
    /\ pc = "context_exit"
    /\ txns' = [txns EXCEPT ![Len(txns)] = WithoutContext(@)]
    /\ Note("context_exit")
    /\ pc' = IF exc # NoExc THEN "except" ELSE "commit"
    /\ NoRaise
    /\ UNCHANGED << rest, req, config, tenant, nextCount, count, pending, rv, outcome, attempts,
                    prelude, lastCall >>

-----------------------------------------------------------------------------
Next ==
    \/ CheckRouting
    \/ CheckOptions
    \/ CacheClean
    \/ ProbeStart
    \/ ProbeLookup
    \/ ProbeExit
    \/ LoopNext
    \/ TxnStart
    \/ SendTransactionStart
    \/ SetContext
    \/ PopLocale
    \/ Resolve
    \/ Call
    \/ ForceLazy
    \/ ContextExit
    \/ Commit
    \/ Except
    \/ Else
    \/ SendTransactionStop
    \/ TxnExit

Spec == Init /\ [][Next]_vars

-----------------------------------------------------------------------------
\* Two dispatches on two threads of the server

\* Largest value of CONFIG['retry'] explored with two threads.
MaxWorkersRetry == 1

\* What belongs to one call of dispatch_request on its thread: the request of
\* the thread's request context (_request_ctx_stack.top.request), the local
\* variables user, company, count, txn and rv, and the thread's Transaction().
\* CONFIG is shared by the threads.
Locals ==
    [ req |-> req, orig_view_args |-> orig_view_args, pc |-> pc,
      nextCount |-> nextCount, count |-> count, tenant |-> tenant, txns |-> txns,
      exc |-> exc, pending |-> pending, rv |-> rv, outcome |-> outcome,
      attempts |-> attempts, prelude |-> prelude, log |-> log, totals |-> totals,
      raised |-> raised, faults |-> faults, lastCall |-> lastCall ]

\* The thread's dispatch when dispatch_request is entered for request r.
InitialLocals(r) ==
    [ req |-> r, orig_view_args |-> r.view_args, pc |-> "dispatch_request",
      nextCount |-> 0, count |-> 0, tenant |-> [user |-> "none", company |-> "none"],
      txns |-> << >>, exc |-> NoExc, pending |-> "none", rv |-> NoValue,
      outcome |-> [kind |-> "running", exc |-> NoExc, rv |-> NoValue],
      attempts |-> 0, prelude |-> << >>, log |-> << >>,
      totals |-> [ev \in Counted |-> 0], raised |-> << >>,
      faults |-> [handlerTransients |-> 0, tryTransients |-> 0, commitTransients |-> 0,
                 environment |-> FALSE],
      lastCall |-> NoCall ]

\* The requests the two threads serve.
WorkerRequest(w) ==
    [ routing_exception |-> "None", method |-> "GET", host |-> "known",
      url_rule |-> [ endpoint |-> IF w = "w1" THEN "registered_function"
                                  ELSE "model_instance_method",
                     provide_automatic_options |-> FALSE ],
      view_args |-> IF w = "w1" THEN ViewArgs({"q"}) ELSE ViewArgs({"q", "active_id"}) ]

Other(w) == IF w = "w1" THEN "w2" ELSE "w1"

\* Mutant: Transaction() is one object for the whole process, not one a thread.
ResumeOnSharedTransaction(d) ==
    /\ req' = d.req
    /\ orig_view_args' = d.orig_view_args
    /\ pc' = d.pc
    /\ nextCount' = d.nextCount
    /\ count' = d.count
    /\ tenant' = d.tenant
    /\ UNCHANGED txns
    /\ exc' = d.exc
    /\ pending' = d.pending
    /\ rv' = d.rv
    /\ outcome' = d.outcome
    /\ attempts' = d.attempts
    /\ prelude' = d.prelude
    /\ log' = d.log
    /\ totals' = d.totals
    /\ raised' = d.raised
    /\ faults' = d.faults
    /\ lastCall' = d.lastCall

\* The thread of dispatch d runs: its request context, its local variables
\* and its Transaction() are the current ones.
Resume(d) ==
    /\ req' = d.req
    /\ orig_view_args' = d.orig_view_args
    /\ pc' = d.pc
    /\ nextCount' = d.nextCount
    /\ count' = d.count
    /\ tenant' = d.tenant
    /\ txns' = d.txns
    /\ exc' = d.exc
    /\ pending' = d.pending
    /\ rv' = d.rv
    /\ outcome' = d.outcome
    /\ attempts' = d.attempts
    /\ prelude' = d.prelude
    /\ log' = d.log
    /\ totals' = d.totals
    /\ raised' = d.raised
    /\ faults' = d.faults
    /\ lastCall' = d.lastCall

\* The server runs the other thread, between any two steps of this one, as
\* long as the other has not left dispatch_request.
Switch ==
    /\ parked # << >>
    /\ parked[1].pc # "done"
    /\ Resume(parked[1])
    /\ parked' = << Locals >>
    /\ worker' = Other(worker)
    /\ UNCHANGED << CONFIG_retry, beyondThreads >>

InitWorkers ==
    /\ CONFIG_retry \in 0..MaxWorkersRetry
    /\ worker = "w1"
    /\ parked = << InitialLocals(WorkerRequest("w2")) >>
    /\ NoApplication
    /\ NoLoader
    /\ NoFragments
    /\ req = WorkerRequest("w1")
    /\ orig_view_args = req.view_args
    /\ pc = "dispatch_request"
    /\ nextCount = 0
    /\ count = 0
    /\ tenant = [user |-> "none", company |-> "none"]
    /\ txns = << >>
    /\ exc = NoExc
    /\ pending = "none"
    /\ rv = NoValue
    /\ outcome = [kind |-> "running", exc |-> NoExc, rv |-> NoValue]
    /\ attempts = 0
    /\ prelude = << >>
    /\ log = << >>
    /\ totals = [ev \in Counted |-> 0]
    /\ raised = << >>
    /\ faults = [handlerTransients |-> 0, tryTransients |-> 0, commitTransients |-> 0,
                 environment |-> FALSE]
    /\ lastCall = NoCall

NextWorkers ==
    \/ Next
    \/ Switch

SpecWorkers == InitWorkers /\ [][NextWorkers]_vars

-----------------------------------------------------------------------------
\* The application object: configuration, initialise, render_template

\* values of config['SECRET_KEY']: the default None, an empty one, a key
SecretKeys == {"None", "", "secret"}

\* the truth value of a configuration value, as assert and if take it
Truthy(v) == v \notin {"None", ""}

\* values of config['CACHE_TYPE']: the five backends load_cache knows, a
\* backend of the user, and a name that cannot be imported
CacheTypes ==
    { "werkzeug.contrib.cache.NullCache", "werkzeug.contrib.cache.SimpleCache",
      "werkzeug.contrib.cache.MemcachedCache",
      "werkzeug.contrib.cache.GAEMemcachedCache",
      "werkzeug.contrib.cache.FileSystemCache", "custom.Backend", "missing.Backend" }

\* import_string(self.cache_type) finds the class
Importable(t) == t # "missing.Backend"

\* the configuration attributes load_cache hands to the backend class
CacheArguments(t) ==
    CASE t = "werkzeug.contrib.cache.NullCache" -> << "cache_default_timeout" >>
      [] t = "werkzeug.contrib.cache.SimpleCache" ->
           << "cache_threshold", "cache_default_timeout" >>
      [] t = "werkzeug.contrib.cache.MemcachedCache" ->
           << "cache_memcached_servers", "cache_default_timeout", "cache_key_prefix" >>
      [] t = "werkzeug.contrib.cache.GAEMemcachedCache" ->
           << "cache_default_timeout", "cache_key_prefix" >>
      [] t = "werkzeug.contrib.cache.FileSystemCache" ->
           << "cache_dir", "cache_threshold", "cache_default_timeout" >>
      [] OTHER -> << "cache_init_kwargs" >>

\* The template names handed to render_template: one name, or a list of names.
\* A name is the sequence of its path segments.
TemplateNames ==
    { [template_name_or_list |-> "basestring", names |-> << << "home.jinja" >> >>],
      [template_name_or_list |-> "list",
       names |-> << << "a.jinja" >>, << "b.jinja" >> >>] }

\* '/'.join([request.nereid_website.name, template_name_or_list])
Prefixed(name) == << "website_name" >> \o name

\* render_template, lines 101-107
LazyRendererOf(prefix, t) ==
    IF prefix /\ t.template_name_or_list = "basestring"
    THEN [template_name_or_list |-> "list",
          names |-> << Prefixed(t.names[1]), t.names[1] >>]
    ELSE t

\* The code that uses the application sets configuration values after the
\* construction: the secret key, the cache type, and, if it chooses to, the
\* prefixing of template names.
Configure ==
    /\ app_pc = "configure"
    /\ \E k \in SecretKeys, t \in CacheTypes, explicit \in BOOLEAN, v \in BOOLEAN :
         app' = [app EXCEPT
                   !.config.SECRET_KEY = k,
                   !.config.CACHE_TYPE = t,
                   !.config.TEMPLATE_PREFIX_WEBSITE_NAME = IF explicit THEN v ELSE @,
                   !.set = {"SECRET_KEY", "CACHE_TYPE"}
                           \cup (IF explicit THEN {"TEMPLATE_PREFIX_WEBSITE_NAME"}
                                 ELSE {})]
    /\ app_pc' = "initialise"
    /\ UNCHANGED << app_exc, lazy, beyondApplication >>

\* Mutant: the check of the secret key is not made.
AssertSecretKeyStripped ==
    /\ app_pc = "initialise"
    /\ app_pc' = "load_cache"
    /\ UNCHANGED << app, app_exc, lazy, beyondApplication >>

\* assert self.secret_key, 'Secret Key is not defined in config'
AssertSecretKey ==
    /\ app_pc = "initialise"
    /\ IF Truthy(app.config.SECRET_KEY)
       THEN /\ app_pc' = "load_cache"
            /\ UNCHANGED app_exc
       ELSE /\ app_pc' = "failed"
            /\ app_exc' = "AssertionError"
    /\ UNCHANGED << app, lazy, beyondApplication >>

\* self.load_cache(): the import of the backend class or its construction
\* may raise
LoadCache ==
    /\ app_pc = "load_cache"
    /\ \E ok \in BOOLEAN :
         IF ok /\ Importable(app.config.CACHE_TYPE)
         THEN /\ app' = [app EXCEPT !.cache =
                           [ backend |-> app.config.CACHE_TYPE,
                             arguments |-> CacheArguments(app.config.CACHE_TYPE) ]]
              /\ app_pc' = "static"
              /\ UNCHANGED app_exc
         ELSE /\ app_pc' = "failed"
              /\ app_exc' = IF Importable(app.config.CACHE_TYPE) THEN "BackendError"
                            ELSE "ImportError"
              /\ UNCHANGED app
    /\ UNCHANGED << lazy, beyondApplication >>

\* self.view_functions['static'] = self.send_static_file
RegisterStatic ==
    /\ app_pc = "static"
    /\ app' = [app EXCEPT !.view_functions = @ \cup {"static"}]
    /\ app_pc' = "load_backend"
    /\ UNCHANGED << app_exc, lazy, beyondApplication >>

\* self.load_backend(): the connection to the database or the pool may raise
LoadBackend ==
    /\ app_pc = "load_backend"
    /\ \E o \in {"ok", "connect", "pool"} :
         CASE o = "ok" ->
                /\ app' = [app EXCEPT !.database = "connected", !.pool = "initialised"]
                /\ app_pc' = "add_ctx_processors_from_db"
                /\ UNCHANGED app_exc
           [] o = "connect" ->
                /\ app_pc' = "failed"
                /\ app_exc' = "DatabaseError"
                /\ UNCHANGED app
           [] OTHER ->
                /\ app' = [app EXCEPT !.database = "connected"]
                /\ app_pc' = "failed"
                /\ app_exc' = "PoolError"
    /\ UNCHANGED << lazy, beyondApplication >>

\* self.add_ctx_processors_from_db(): the processors the database registers
\* for all templates are appended; reading them may raise
AddCtxProcessorsFromDb ==
    /\ app_pc = "add_ctx_processors_from_db"
    /\ \E o \in {"ok", "raise"}, fromDb \in {<< >>, << "db_processor" >>} :
         IF o = "ok"
         THEN /\ app' = [app EXCEPT !.template_context_processors = @ \o fromDb]
              /\ app_pc' = "append_ctx_processor"
              /\ UNCHANGED app_exc
         ELSE /\ app_pc' = "failed"
              /\ app_exc' = "DatabaseError"
              /\ UNCHANGED app
    /\ UNCHANGED << lazy, beyondApplication >>

\* self.template_context_processors[None].append(
\*     nereid_default_template_ctx_processor)
AppendCtxProcessor ==
    /\ app_pc = "append_ctx_processor"
    /\ app' = [app EXCEPT !.template_context_processors =
                 Append(@, "nereid_default_template_ctx_processor")]
    /\ app_pc' = "set_initialised"
    /\ UNCHANGED << app_exc, lazy, beyondApplication >>

\* self.initialised = True
SetInitialised ==
    /\ app_pc = "set_initialised"
    /\ app' = [app EXCEPT !.initialised = TRUE]
    /\ app_pc' = "ready"
    /\ UNCHANGED << app_exc, lazy, beyondApplication >>

\* render_template(template_name_or_list, **context) on the initialised
\* application
RenderTemplate ==
    /\ app_pc = "ready"
    /\ \E t \in TemplateNames :
         lazy' = LazyRendererOf(app.config.TEMPLATE_PREFIX_WEBSITE_NAME, t)
    /\ UNCHANGED << app, app_pc, app_exc, beyondApplication >>

\* one dispatch at rest: the application is followed, no request is served
NoDispatch ==
    /\ CONFIG_retry = 0
    /\ worker = "w1"
    /\ parked = << >>
    /\ req = WorkerRequest("w1")
    /\ orig_view_args = req.view_args
    /\ pc = "none"
    /\ nextCount = 0
    /\ count = 0
    /\ tenant = [user |-> "none", company |-> "none"]
    /\ txns = << >>
    /\ exc = NoExc
    /\ pending = "none"
    /\ rv = NoValue
    /\ outcome = [kind |-> "running", exc |-> NoExc, rv |-> NoValue]
    /\ attempts = 0
    /\ prelude = << >>
    /\ log = << >>
    /\ totals = [ev \in Counted |-> 0]
    /\ raised = << >>
    /\ faults = [handlerTransients |-> 0, tryTransients |-> 0, commitTransients |-> 0,
                 environment |-> FALSE]
    /\ lastCall = NoCall

InitApplication ==
    /\ NoDispatch
    /\ NoLoader
    /\ NoFragments
    /\ app = Constructed
    /\ app_pc = "configure"
    /\ app_exc = "none"
    /\ lazy = NoLazy

NextApplication ==
    \/ Configure
    \/ AssertSecretKey
    \/ LoadCache
    \/ RegisterStatic
    \/ LoadBackend
    \/ AddCtxProcessorsFromDb
    \/ AppendCtxProcessor
    \/ SetInitialised
    \/ RenderTemplate

SpecApplication == InitApplication /\ [][NextApplication]_vars

-----------------------------------------------------------------------------
\* ModuleTemplateLoader.loaders, templating.py lines 152-210.  The threads
\* that load templates share the loader of the application; each step below
\* is one statement of the property as one thread executes it.  The
\* transaction the query runs in is opened and left inside the Query step.

\* a list in reverse: [::-1]
RECURSIVE Reverse(_)
Reverse(s) == IF s = << >> THEN << >> ELSE Append(Reverse(Tail(s)), Head(s))

\* FileSystemLoader(path)
FileSystemLoader(path) == [searchpath |-> path]

\* the templates folder of a module: in the egg of the module, located
\* through its tryton.cfg, or under MODULES_PATH
TemplateDir(name) ==
    << IF name \in modules.eggs THEN "egg" ELSE "MODULES_PATH", name, "templates" >>

\* packages = list(create_graph(get_module_list())[0])[::-1]
Packages == Reverse(ModuleGraph)

\* if self._loaders is None:
LoadersIsNone(t) ==
    /\ access[t].pc = "idle"
    /\ access' = [access EXCEPT ![t].pc = IF mtl._loaders.is_None THEN "new_list"
                                          ELSE "return",
                                ![t].computes = mtl._loaders.is_None]
    /\ UNCHANGED << mtl, modules, beyondLoader >>

\* self._loaders = []
LoadersNewList(t) ==
    /\ access[t].pc = "new_list"
    /\ mtl' = [mtl EXCEPT !._loaders = [is_None |-> FALSE, items |-> << >>]]
    /\ access' = [access EXCEPT ![t].pc = "query"]
    /\ UNCHANGED << modules, beyondLoader >>

\* cursor.execute("SELECT name FROM ir_module_module WHERE state = 'installed'")
\* installed_module_list = [name for (name,) in cursor.fetchall()]
\* the transaction or the query may raise
Query(t) ==
    /\ access[t].pc = "query"
    /\ \E ok \in BOOLEAN :
         access' = IF ok
                   THEN [access EXCEPT ![t].pc = "searchpath",
                                       ![t].installed_module_list = modules.installed]
                   ELSE [access EXCEPT ![t].pc = "raised"]
    /\ UNCHANGED << mtl, modules, beyondLoader >>

\* if self.searchpath is not None:
\*     self._loaders.append(FileSystemLoader(self.searchpath))
\* packages = list(create_graph(get_module_list())[0])[::-1]
AppendSearchpath(t) ==
    /\ access[t].pc = "searchpath"
    /\ mtl' = IF mtl.searchpath # "None"
              THEN [mtl EXCEPT !._loaders.items =
                      Append(@, FileSystemLoader(<< mtl.searchpath >>))]
              ELSE mtl
    /\ access' = [access EXCEPT ![t].pc = "packages", ![t].packages = Packages,
                                ![t].i = 1]
    /\ UNCHANGED << modules, beyondLoader >>

\* for package in packages: one turn of the loop, or its end
ForPackage(t) ==
    /\ access[t].pc = "packages"
    /\ IF access[t].i > Len(access[t].packages)
       THEN /\ access' = [access EXCEPT ![t].pc = "return"]
            /\ UNCHANGED mtl
       ELSE LET name == access[t].packages[access[t].i]
            IN /\ mtl' = IF /\ name \in access[t].installed_module_list
                            /\ name \in modules.with_templates
                         THEN [mtl EXCEPT !._loaders.items =
                                 Append(@, FileSystemLoader(TemplateDir(name)))]
                         ELSE mtl
               /\ access' = [access EXCEPT ![t].i = @ + 1]
    /\ UNCHANGED << modules, beyondLoader >>

\* return self._loaders
ReturnLoaders(t) ==
    /\ access[t].pc = "return"
    /\ access' = [access EXCEPT ![t].pc = "done", ![t].result = mtl._loaders.items]
    /\ UNCHANGED << mtl, modules, beyondLoader >>

\* ModuleTemplateLoader(database_name, searchpath=...) for a database with
\* some of the modules installed, some of them with a templates folder
InitLoader ==
    /\ NoDispatch
    /\ NoApplication
    /\ \E sp \in {"None", "templates"} :
         mtl = [ _loaders |-> [is_None |-> TRUE, items |-> << >>], searchpath |-> sp ]
    /\ modules \in [ installed : SUBSET {"ir", "nereid", "nereid_catalog"},
                     with_templates : SUBSET {"nereid", "nereid_catalog"},
                     eggs : {{}, {"nereid_catalog"}} ]
    /\ access = [t \in LoaderThreads |-> NoAccess]
    /\ NoFragments

NextLoader ==
    \E t \in LoaderThreads :
      \/ LoadersIsNone(t)
      \/ LoadersNewList(t)
      \/ Query(t)
      \/ AppendSearchpath(t)
      \/ ForPackage(t)
      \/ ReturnLoaders(t)

SpecLoader == InitLoader /\ [][NextLoader]_vars

-----------------------------------------------------------------------------
\* FragmentCacheExtension._cache_support, templating.py lines 252-264, with
\* the cache the application gives the environment (application.py lines
\* 386-391).  A call of _cache_support is one step; an entry of the cache
\* may expire or be evicted between two calls.

\* the names of the cache blocks of the templates
FragmentNames == {"menu", "footer"}

\* the timeouts of the cache blocks: None when the tag gives none
Timeouts == {"None", "60"}

\* the cache backends: NullCache stores nothing, the others do
Stores(backend) == backend # "werkzeug.contrib.cache.NullCache"

\* key = self.environment.fragment_cache_prefix + name
KeyOf(prefix, name) == prefix \o << name >>

\* Mutant: the cache never finds an entry.
GetAlwaysNone(key) == [is_None |-> TRUE, value |-> NoFragment.returned]

\* self.environment.fragment_cache.get(key): the value held, or None
Get(key) ==
    IF key \in DOMAIN entries
    THEN [is_None |-> FALSE, value |-> entries[key].value]
    ELSE [is_None |-> TRUE, value |-> NoFragment.returned]

\* self.environment.fragment_cache.add(key, rv, timeout): stores the value
\* unless the key has an entry already (or the backend stores nothing)
Add(key, value, timeout) ==
    IF Stores(environment.fragment_cache) /\ key \notin DOMAIN entries
    THEN [k \in DOMAIN entries \cup {key} |->
            IF k = key THEN [value |-> value, timeout |-> timeout] ELSE entries[k]]
    ELSE entries

\* caller(): the body of the block rendered now
Caller(name) == [body |-> name, version |-> renders + 1]

\* _cache_support(name, timeout, caller)
CacheSupport ==
    /\ \E name \in FragmentNames, timeout \in Timeouts :
         LET key == KeyOf(environment.fragment_cache_prefix, name)
             cached == Get(key)
         IN IF ~cached.is_None
            THEN /\ fragment' = [key |-> key, name |-> name, timeout |-> timeout,
                                 hit |-> TRUE, added |-> << >>,
                                 returned |-> cached.value]
                 /\ UNCHANGED << entries, renders, first_miss >>
            ELSE /\ renders < MaxRenders
                 /\ renders' = renders + 1
                 /\ entries' = Add(key, Caller(name), timeout)
                 /\ fragment' = [key |-> key, name |-> name, timeout |-> timeout,
                                 hit |-> FALSE,
                                 added |-> << [key |-> key, value |-> Caller(name),
                                               timeout |-> timeout] >>,
                                 returned |-> Caller(name)]
                 /\ first_miss' =
                      IF key \in DOMAIN first_miss THEN first_miss
                      ELSE [k \in DOMAIN first_miss \cup {key} |->
                              IF k = key THEN Caller(name) ELSE first_miss[k]]
    /\ UNCHANGED << environment, beyondFragments >>

\* the timeout of an entry passes, or the cache evicts it
Expire ==
    /\ \E key \in DOMAIN entries :
         /\ entries' = [k \in DOMAIN entries \ {key} |-> entries[k]]
         /\ first_miss' = [k \in DOMAIN first_miss \ {key} |-> first_miss[k]]
    /\ UNCHANGED << environment, fragment, renders, beyondFragments >>

\* rv.fragment_cache = self.cache
\* rv.fragment_cache_prefix = self.cache_key_prefix + "-frag-"
InitFragments ==
    /\ NoDispatch
    /\ NoApplication
    /\ NoLoader
    /\ \E prefix \in {<< >>, << "site" >>},
          backend \in {"werkzeug.contrib.cache.NullCache",
                       "werkzeug.contrib.cache.SimpleCache"} :
         environment = [fragment_cache_prefix |-> prefix \o << "-frag-" >>,
                        fragment_cache |-> backend]
    /\ entries = << >>
    /\ fragment = NoFragment
    /\ renders = 0
    /\ first_miss = << >>

NextFragments == CacheSupport \/ Expire

SpecFragments == InitFragments /\ [][NextFragments]_vars

-----------------------------------------------------------------------------
\* Reading the history

Done == pc = "done"

\* the current attempt has an event named ev
Has(ev) == \E i \in 1..Len(log) : log[i] = ev

\* the number of events named ev of the current attempt
Count(ev) == Cardinality({ i \in 1..Len(log) : log[i] = ev })

\* the current attempt has been left (its transaction released)
AttemptOver == Has("release")

\* the exceptions raised inside the try block (lines 311-313) of the current attempt
TryRaised == { i \in 1..Len(raised) :
                 raised[i].att >= 1 /\ raised[i].by # "transaction_stop" }

\* an observer of transaction_stop raised in the current attempt
StopRaised == \E i \in 1..Len(raised) : raised[i].by = "transaction_stop"

\* the view function raised something else than the transient error
HandlerError == \E i \in 1..Len(raised) :
                   raised[i].by = "handler" /\ raised[i].kind = "other"

\* the request passes routing, the OPTIONS check and the tenant probe
EntersLoop ==
    /\ req.routing_exception = "None"
    /\ ~(req.url_rule.provide_automatic_options /\ req.method = "OPTIONS")
    /\ req.host = "known"

\* the endpoint resolves to a callable for the request as the router built it
EndpointResolves ==
    \/ req.url_rule.endpoint \in {"registered_function", "model_static_method"}
    \/ /\ req.url_rule.endpoint = "model_instance_method"
       /\ "active_id" \in DOMAIN orig_view_args

\* the call the first attempt makes (or fails to make) for this request
FirstAttemptCall == CallOf(req.url_rule.endpoint, Pop(orig_view_args, "locale"))

-----------------------------------------------------------------------------
\* C1: when nothing raises during a dispatch but the view function, which
\* raises the transient error k times (k <= retry) and nothing else, the
\* dispatch runs exactly k+1 attempts, k rolled back and the last committed,
\* and returns the result the view function gave in attempt k+1; for
\* registered, static and instance endpoints alike.
C1_RetryUntilSuccess ==
    ( /\ Done
      /\ EntersLoop
      /\ EndpointResolves
      /\ ~faults.environment
      /\ ~HandlerError
      /\ CONFIG_retry >= 0
      /\ faults.handlerTransients <= CONFIG_retry )
    => LET k == faults.handlerTransients
       IN /\ outcome.kind = "returned"
          /\ outcome.rv.att = k + 1
          /\ attempts = k + 1
          /\ totals["rollback"] = k
          /\ totals["commit"] = 1
          /\ Has("commit")

\* C2: every arrival at the call of the resolved method, on the first attempt
\* and on every retry, makes the call the first attempt makes for the request
\* (same positional argument, same keyword arguments), and it is the only
\* one of its attempt, whose transaction was opened for it.
C2_RetrySameArguments ==
    lastCall # NoCall
    => /\ lastCall.called = FirstAttemptCall.called
       /\ lastCall.positional = FirstAttemptCall.positional
       /\ lastCall.kwargs = FirstAttemptCall.kwargs
       /\ lastCall.att \in 1..attempts
       /\ lastCall.att = attempts => (Count("open") = 1 /\ Count("call") <= 1)

\* C3: when the transient error is raised inside the try block of every
\* attempt (and no observer of transaction_stop interferes), a dispatch with
\* retry budget N >= 0 makes exactly N+1 attempts, rolls every one of them
\* back, commits nothing, and ends by raising the transient error of the
\* last attempt itself.
AllAttemptsTransient ==
    /\ attempts >= 1
    /\ faults.tryTransients = attempts
    /\ ~StopRaised

C3_BudgetExhausted ==
    (Done /\ CONFIG_retry >= 0 /\ AllAttemptsTransient)
    => /\ attempts = CONFIG_retry + 1
       /\ totals["rollback"] = attempts
       /\ totals["commit"] = 0
       /\ outcome = Raised(raised[Len(raised)])
       /\ outcome.exc.kind = "transient"
       /\ outcome.exc.att = attempts

C3_Witness ==
    /\ Done
    /\ CONFIG_retry = MaxRetry
    /\ AllAttemptsTransient
    /\ attempts = MaxRetry + 1
    /\ faults.handlerTransients = MaxRetry + 1
    /\ outcome.exc = Exc("transient", "handler", MaxRetry + 1)

\* C4: an exception other than the transient error raised inside the try
\* block of an attempt ends the dispatch: control never returns to the loop
\* head, the attempt's transaction is rolled back once the except clause has
\* run (so before the exception leaves), and the dispatch ends by raising
\* that exception (unless an observer of transaction_stop raises over it).
C4_FatalErrorNoRetry ==
    \A i \in TryRaised :
      raised[i].kind = "other"
      => /\ raised[i].att = attempts
         /\ pc \in {"context_exit", "except", "transaction_stop", "txn_exit", "done"}
         /\ pc \in {"transaction_stop", "txn_exit", "done"}
              => /\ Count("rollback") = 1
                 /\ ~Has("commit")
                 /\ pending = "raise"
         /\ Done => /\ outcome.kind = "raised"
                    /\ outcome.exc = raised[Len(raised)]
                    /\ i = Len(raised) \/ StopRaised

C4_Witness ==
    /\ Done
    /\ CONFIG_retry = MaxRetry
    /\ attempts = 2
    /\ outcome = Raised(Exc("other", "handler", 2))
    /\ Has("rollback")

\* C5: at most one commit happens in a dispatch, it happens in the last
\* attempt, that attempt performs no rollback, and whenever dispatch_request
\* returns (or is about to return) a result of the view function the commit
\* of the last attempt has already been performed.
HandlerResult(v) == v.form \in {"value", "unicode"}

C5_ExactlyOneCommit ==
    /\ totals["commit"] <= 1
    /\ totals["commit"] = 1 => (Count("commit") = 1 /\ ~Has("rollback"))
    /\ pending = "return" => Has("commit")
    /\ (Done /\ outcome.kind = "returned" /\ HandlerResult(outcome.rv))
         => /\ totals["commit"] = 1
            /\ Has("commit")
            /\ outcome.rv.att = attempts
    /\ (Done /\ EntersLoop /\ CONFIG_retry >= 0 /\ outcome.kind = "returned")
         => HandlerResult(outcome.rv)

C5_Witness ==
    /\ Done
    /\ outcome.kind = "returned"
    /\ HandlerResult(outcome.rv)
    /\ attempts = 3
    /\ totals["commit"] = 1
    /\ totals["rollback"] = 2

\* C6: in every attempt transaction_start is sent at most once, and
\* transaction_stop at most once and only after transaction_start; an attempt
\* that is over has sent each exactly once; the signals sent in the whole
\* dispatch are those of its attempts, so that at the end the numbers of
\* start signals, stop signals and attempts are equal.
Missing(ev) == IF attempts >= 1 /\ ~Has(ev) THEN 1 ELSE 0

C6_SignalsOncePerAttempt ==
    /\ Count("transaction_start") <= 1
    /\ Count("transaction_stop") <= 1
    /\ \A j \in 1..Len(log) :
         log[j] = "transaction_stop" => \E i \in 1..(j - 1) : log[i] = "transaction_start"
    /\ (attempts >= 1 /\ pc \in {"loop", "txn_start", "done"}) => AttemptOver
    /\ AttemptOver => (Count("transaction_start") = 1 /\ Count("transaction_stop") = 1)
    /\ totals["transaction_start"] = attempts - Missing("transaction_start")
    /\ totals["transaction_stop"] = attempts - Missing("transaction_stop")
    /\ Done => /\ totals["transaction_start"] = attempts
               /\ totals["transaction_stop"] = attempts

C6_Witness ==
    /\ Done
    /\ attempts = 3
    /\ outcome.kind = "returned"
    /\ faults.handlerTransients = 1
    /\ faults.tryTransients = 2
    /\ totals["transaction_start"] = 3
    /\ totals["transaction_stop"] = 3

\* C7: the events of an attempt come in the order: transaction opened,
\* transaction_start sent, (language scope entered, method called, scope
\* left,) commit or rollback, transaction_stop sent, transaction released;
\* transaction_stop is sent only after the commit or the rollback of its
\* attempt and while the attempt's transaction is still open.
Rank(ev) == CASE ev = "open" -> 1
              [] ev = "transaction_start" -> 2
              [] ev = "set_context" -> 3
              [] ev = "call" -> 4
              [] ev = "context_exit" -> 5
              [] ev \in {"commit", "rollback"} -> 6
              [] ev = "transaction_stop" -> 7
              [] ev = "release" -> 8
              [] OTHER -> 0

C7_AttemptEventOrder ==
    /\ attempts = 0 => log = << >>
    /\ attempts >= 1 =>
         /\ log[1] = "open"
         /\ \A i \in 1..(Len(log) - 1) : Rank(log[i]) < Rank(log[i + 1])
         /\ Has("transaction_stop") => (Has("commit") \/ Has("rollback"))
         /\ Has("release") => Has("transaction_stop")
         /\ Has("call") => Has("transaction_start")
         /\ Has("commit") => Has("call")
         /\ IF AttemptOver THEN txns = << >> ELSE (Len(txns) = 1 /\ ~txns[1].readonly)

C7_Witness ==
    /\ pc = "txn_exit"
    /\ attempts = 2
    /\ totals["rollback"] = 1
    /\ log = << "open", "transaction_start", "set_context", "call", "context_exit",
                "commit", "transaction_stop" >>
    /\ Len(txns) = 1

\* C8: a request that carries a routing exception makes dispatch_request
\* raise that exception at once: no transaction is opened (neither the
\* probe nor an attempt), the cache is not cleaned, no signal is sent and no
\* method is called.
C8_RoutingExceptionFirst ==
    req.routing_exception # "None"
    => /\ prelude = << >>
       /\ log = << >>
       /\ txns = << >>
       /\ attempts = 0
       /\ totals = [ev \in Counted |-> 0]
       /\ lastCall = NoCall
       /\ pc \in {"dispatch_request", "done"}
       /\ Done => outcome = Raised(Exc(req.routing_exception, "router", 0))

C8_Witness ==
    /\ Done
    /\ req.routing_exception = "MethodNotAllowed"
    /\ req.host = "known"
    /\ outcome.kind = "raised"

\* C9: an OPTIONS request on a rule that provides automatic options is
\* answered with the default options response: the cache is not cleaned, the
\* tenant is not looked up, no transaction is opened, no signal is sent and
\* no method is called, whether the host is that of a known tenant or not.
C9_AutomaticOptionsFirst ==
    ( /\ req.routing_exception = "None"
      /\ req.url_rule.provide_automatic_options
      /\ req.method = "OPTIONS" )
    => /\ prelude = << >>
       /\ log = << >>
       /\ txns = << >>
       /\ attempts = 0
       /\ totals = [ev \in Counted |-> 0]
       /\ lastCall = NoCall
       /\ raised = << >>
       /\ pc \in {"dispatch_request", "options", "done"}
       /\ Done => outcome = Returned(Value("default_options_response", 0))

C9_Witness ==
    /\ Done
    /\ req.routing_exception = "None"
    /\ req.url_rule.provide_automatic_options
    /\ req.method = "OPTIONS"
    /\ req.host = "unknown"
    /\ outcome.kind = "returned"

\* C10: at most one top-level transaction is open at any time.  During the
\* probe it is the read-only transaction of user 0; before the first
\* attempt, between attempts and at the end none is open; during an attempt
\* it is the attempt's read-write transaction, bound to the database, the
\* user and the company of the tenant, and the language scope only adds a
\* context layer on it.
InProbe == pc \in {"probe_lookup", "probe_exit"}

InAttempt == pc \in {"transaction_start", "set_context", "pop_locale", "resolve",
                     "call", "lazy", "context_exit", "commit", "except", "else",
                     "transaction_stop", "txn_exit"}

InLanguageScope == pc \in {"pop_locale", "resolve", "call", "lazy", "context_exit"}

C10_OneTransactionOpen ==
    /\ Len(txns) <= 1
    /\ InProbe => /\ Len(txns) = 1
                  /\ txns[1].readonly
                  /\ txns[1].user = RootUser
    /\ InAttempt => /\ Len(txns) = 1
                    /\ ~txns[1].readonly
                    /\ txns[1].database = "database_name"
                    /\ txns[1].user = Website.user
                    /\ txns[1].context[1] = [company |-> Website.company]
                    /\ Len(txns[1].context) = IF InLanguageScope THEN 2 ELSE 1
    /\ ~(InProbe \/ InAttempt) => txns = << >>

C10_Witness ==
    /\ pc = "call"
    /\ attempts = 2
    /\ Len(txns) = 1
    /\ Len(txns[1].context) = 2
    /\ prelude = << "cache_clean", "probe_open", "tenant_lookup", "probe_release" >>
    /\ totals["rollback"] = 1


\* C11: the tenant is looked up inside a read-only transaction of user 0;
\* that transaction is released on both ways out of the probe (tenant found,
\* lookup raising) and before any attempt opens its transaction; the user and
\* the company every attempt's transaction is bound to are those the probe
\* read from the website.
ProbeTrace == << "cache_clean", "probe_open", "tenant_lookup", "probe_release" >>

C11_ProbeClosedBeforeAttempts ==
    /\ pc = "probe_exit" =>
         /\ txns = << NewTransaction(RootUser, TRUE, [company |-> "none"]) >>
         /\ IF req.host = "known"
            THEN tenant = Website /\ exc = NoExc
            ELSE tenant.user = "none" /\ exc = Exc("lookup", "get_from_host", 0)
    /\ (Len(prelude) >= 3 /\ prelude[3] = "tenant_lookup" /\ pc # "probe_exit")
         => /\ prelude = ProbeTrace
            /\ \A i \in 1..Len(txns) : ~txns[i].readonly
    /\ (Done /\ outcome.exc.by = "get_from_host")
         => (txns = << >> /\ prelude = ProbeTrace /\ attempts = 0)
    /\ attempts >= 1 =>
         /\ prelude = ProbeTrace
         /\ tenant = Website
         /\ req.host = "known"
    /\ InAttempt =>
         /\ txns = << [ database |-> "database_name", user |-> tenant.user,
                        readonly |-> FALSE, context |-> txns[1].context ] >>
         /\ txns[1].context[1] = [company |-> tenant.company]

C11_Witness ==
    /\ pc = "transaction_start"
    /\ attempts = 2
    /\ prelude = ProbeTrace
    /\ tenant = Website
    /\ txns = << NewTransaction("application_user", FALSE, [company |-> "company"]) >>


\* C12: when the host of the request is that of no website, the error of the
\* lookup leaves dispatch_request: the loop is not entered, no read-write
\* transaction is opened, no signal is sent, no method is called, and the
\* lookup is made once whatever the retry budget.
UnknownHost ==
    /\ req.routing_exception = "None"
    /\ ~(req.url_rule.provide_automatic_options /\ req.method = "OPTIONS")
    /\ req.host = "unknown"

C12_UnknownHostNotRetried ==
    UnknownHost
    => /\ pc \in {"dispatch_request", "options", "cache_clean", "probe_start",
                  "probe_lookup", "probe_exit", "done"}
       /\ attempts = 0
       /\ log = << >>
       /\ totals = [ev \in Counted |-> 0]
       /\ lastCall = NoCall
       /\ \A i \in 1..Len(txns) : txns[i].readonly
       /\ Cardinality({ i \in 1..Len(prelude) : prelude[i] = "tenant_lookup" }) <= 1
       /\ tenant.user = "none"
       /\ Done => /\ outcome = Raised(Exc("lookup", "get_from_host", 0))
                  /\ prelude = ProbeTrace
                  /\ txns = << >>

C12_Witness ==
    /\ Done
    /\ UnknownHost
    /\ CONFIG_retry = MaxRetry
    /\ outcome.kind = "raised"
    /\ outcome.exc.by = "get_from_host"


\* C13: an exception raised by an observer of transaction_start or of
\* transaction_stop is treated as one raised by the view function: when the
\* attempt is over its transaction has been rolled back and not committed,
\* a transient error of an observer is followed by another attempt while the
\* budget lasts, and any other error of an observer ends the dispatch by
\* raising it.
LastRaised == raised[Len(raised)]

ObserverRaisedLast ==
    /\ raised # << >>
    /\ LastRaised.by \in {"transaction_start", "transaction_stop"}

C13_ObserverErrorLikeHandlerError ==
    (AttemptOver /\ pc \in {"loop", "done"} /\ ObserverRaisedLast)
    => /\ Has("rollback")
       /\ ~Has("commit")
       /\ IF IsTransient(LastRaised) /\ count > 0
          THEN pc = "loop"
          ELSE outcome = Raised(LastRaised)


\* C14: whenever the endpoint is a key of view_functions, every arrival at
\* the call calls the registered handler with no positional argument and
\* with all of view_args but 'locale' as keyword arguments; 'active_id' is
\* not popped from view_args and no instance is constructed, whatever kind
\* of callable is registered.
C14_RegisteredHandlerAllKwargs ==
    (IsRegistered(req.url_rule.endpoint) /\ lastCall # NoCall)
    => /\ lastCall.called
       /\ lastCall.positional = "none"
       /\ lastCall.kwargs = Pop(orig_view_args, "locale")
       /\ req.view_args = Pop(orig_view_args, "locale")


\* C15: for an endpoint that is not registered and names an instance method
\* of a model, a call of _dispatch_request that finds 'active_id' in
\* view_args pops it, calls the method once with the instance of that id as
\* the only positional argument and with the remaining view_args as keyword
\* arguments, and leaves view_args without 'active_id'.
InstanceEndpoint == req.url_rule.endpoint = "model_instance_method"

C15_InstanceMethodCall ==
    [][ ( /\ pc = "call"
          /\ InstanceEndpoint
          /\ "active_id" \in DOMAIN req.view_args )
        => /\ lastCall'.called
           /\ lastCall'.att = attempts
           /\ lastCall'.positional = req.view_args["active_id"]
           /\ lastCall'.kwargs = Pop(req.view_args, "active_id")
           /\ DOMAIN lastCall'.kwargs = (DOMAIN orig_view_args) \ {"locale", "active_id"}
           /\ req'.view_args = Pop(req.view_args, "active_id")
           /\ Count("call")' = 1
           /\ pc' \in {"lazy", "context_exit"} ]_vars

C15_Witness ==
    /\ pc = "lazy"
    /\ InstanceEndpoint
    /\ ~IsRegistered(req.url_rule.endpoint)
    /\ DOMAIN orig_view_args = {"q", "locale", "active_id"}
    /\ lastCall = [att |-> 1, called |-> TRUE, positional |-> "42",
                   kwargs |-> [q |-> "widget"]]
    /\ req.view_args = [q |-> "widget"]


\* C16: for an endpoint that is not registered and names a method bound to
\* the model itself (static or class-level), every call is made directly,
\* with no positional argument (no instance) and with all of view_args but
\* 'locale' as keyword arguments: an 'active_id' among them stays a keyword
\* argument, and view_args is left as it was.
StaticEndpoint == req.url_rule.endpoint = "model_static_method"

C16_StaticMethodCall ==
    (StaticEndpoint /\ lastCall # NoCall)
    => /\ lastCall.called
       /\ lastCall.positional = "none"
       /\ lastCall.kwargs = Pop(orig_view_args, "locale")
       /\ "active_id" \in DOMAIN orig_view_args
            => /\ "active_id" \in DOMAIN lastCall.kwargs
               /\ lastCall.kwargs["active_id"] = orig_view_args["active_id"]
       /\ req.view_args = Pop(orig_view_args, "locale")
       /\ lastCall.att = attempts => Count("call") = 1

C16_Witness ==
    /\ pc = "lazy"
    /\ StaticEndpoint
    /\ attempts = 2
    /\ lastCall = [att |-> 2, called |-> TRUE, positional |-> "none",
                   kwargs |-> [active_id |-> "42", q |-> "widget"]]


\* C17: in every attempt 'locale' is out of view_args from the resolution of
\* the endpoint on, so that no call, of a registered handler, of a static
\* method or of an instance method, has a keyword argument 'locale'; the
\* removal raises nothing, and without 'locale' it changes nothing.
AfterPopLocale == pc \in {"resolve", "call", "lazy", "context_exit"}

C17_LocaleStripped ==
    /\ AfterPopLocale => "locale" \notin DOMAIN req.view_args
    /\ "locale" \notin DOMAIN lastCall.kwargs
    /\ pc = "resolve" =>
         /\ exc = NoExc
         /\ raised = << >>
         /\ attempts = 1 => req.view_args = Pop(orig_view_args, "locale")
         /\ (attempts = 1 /\ "locale" \notin DOMAIN orig_view_args)
              => req.view_args = orig_view_args

C17_Witness ==
    /\ pc = "lazy"
    /\ attempts = 2
    /\ "locale" \in DOMAIN orig_view_args
    /\ lastCall.called
    /\ lastCall.att = 2
    /\ DOMAIN lastCall.kwargs = {"q", "active_id"}


\* C18: when the endpoint is not registered and its model or its method does
\* not exist, or it names an instance method and the request's view_args
\* have no 'active_id', the method is never called and nothing is committed;
\* the error of the resolution is not retried: its attempt is rolled back,
\* sends transaction_stop, releases its transaction and the dispatch ends by
\* raising (that error, unless an observer of transaction_stop raises over
\* it); when nothing else raises in the dispatch exactly one attempt is
\* made, whatever the retry budget.
MissingEndpoint == req.url_rule.endpoint \in {"missing_model", "missing_method"}

LacksActiveId == InstanceEndpoint /\ "active_id" \notin DOMAIN orig_view_args

ResolverErrors == {"Pool.get", "getattr", "pop_active_id"}

ResolverRaised == \E i \in 1..Len(raised) : raised[i].by \in ResolverErrors

C18_ResolverErrorFatal ==
    (EntersLoop /\ CONFIG_retry >= 0 /\ (MissingEndpoint \/ LacksActiveId))
    => /\ ~lastCall.called
       /\ ~Has("call")
       /\ totals["commit"] = 0
       /\ pc \notin {"lazy", "commit", "else"}
       /\ MissingEndpoint => lastCall = NoCall
       /\ ResolverRaised =>
            /\ raised[1].by \in ResolverErrors
            /\ raised[1] = Exc("other",
                               IF LacksActiveId THEN "pop_active_id"
                               ELSE IF ModelExists(req.url_rule.endpoint) THEN "getattr"
                               ELSE "Pool.get",
                               attempts)
            /\ attempts = faults.tryTransients + 1
            /\ pc \in {"context_exit", "except", "transaction_stop", "txn_exit", "done"}
            /\ pc \in {"transaction_stop", "txn_exit", "done"}
                 => (Count("rollback") = 1 /\ pending = "raise")
            /\ pc \in {"txn_exit", "done"} => Count("transaction_stop") = 1
            /\ Done => /\ txns = << >>
                       /\ outcome.kind = "raised"
                       /\ outcome.exc = LastRaised
                       /\ Len(raised) = 1 \/ StopRaised
       /\ (Done /\ ~faults.environment)
            => /\ attempts = 1
               /\ ResolverRaised
               /\ outcome = Raised(raised[1])
               /\ totals["rollback"] = 1
               /\ totals["transaction_stop"] = 1

C18_Witness ==
    /\ Done
    /\ EntersLoop
    /\ CONFIG_retry = MaxRetry
    /\ LacksActiveId
    /\ attempts = 1
    /\ outcome = Raised(Exc("other", "pop_active_id", 1))
    /\ log = << "open", "transaction_start", "set_context", "context_exit", "rollback",
                "transaction_stop", "release" >>


\* C19: a LazyRenderer returned by the view function exists unevaluated only
\* between the call and its evaluation, which happens inside the language
\* scope, with the attempt's transaction open and before the commit;
\* dispatch_request never returns (nor holds at the commit) an unevaluated
\* LazyRenderer; an exception raised by the evaluation is rolled back,
\* retried while it is transient and the budget lasts, and raised otherwise,
\* as one of the view function is.
RenderRaised == \E i \in 1..Len(raised) : raised[i].by = "render"

PassesChecks ==
    /\ req.routing_exception = "None"
    /\ ~(req.url_rule.provide_automatic_options /\ req.method = "OPTIONS")

CleanCount == Cardinality({ i \in 1..Len(prelude) : prelude[i] = "cache_clean" })

C20_CacheCleanedOnce ==
    /\ CleanCount <= 1
    /\ ~PassesChecks => CleanCount = 0
    /\ (PassesChecks /\ pc \notin {"dispatch_request", "options", "cache_clean"})
         => (CleanCount = 1 /\ prelude[1] = "cache_clean")
    /\ pc \in {"dispatch_request", "options", "cache_clean"}
         => (prelude = << >> /\ txns = << >> /\ attempts = 0)
    /\ (txns # << >> \/ attempts >= 1)
         => (prelude # << >> /\ prelude[1] = "cache_clean")
    /\ attempts >= 1 => prelude = ProbeTrace

C20_Witness ==
    /\ Done
    /\ PassesChecks
    /\ CONFIG_retry = MaxRetry
    /\ attempts = MaxRetry + 1
    /\ totals["rollback"] = MaxRetry
    /\ CleanCount = 1
    /\ outcome.kind = "returned"


\* C21: a dispatch that enters the retry loop with a budget N >= 0 makes at
\* most N+1 attempts and ends in exactly one of two ways: COMMITTED, the
\* last attempt committed and not rolled back and its result returned, or
\* FAILED, the last attempt rolled back and not committed and its exception
\* raised; at the end no transaction is open.
Committed ==
    /\ outcome.kind = "returned"
    /\ HandlerResult(outcome.rv)
    /\ outcome.rv.att = attempts
    /\ Has("commit")
    /\ ~Has("rollback")

Failed ==
    /\ outcome.kind = "raised"
    /\ outcome.exc.att = attempts
    /\ Has("rollback")
    /\ ~Has("commit")

C21_CommittedOrFailed ==
    (EntersLoop /\ CONFIG_retry >= 0)
    => /\ attempts <= CONFIG_retry + 1
       /\ Done => /\ attempts >= 1
                  /\ txns = << >>
                  /\ Committed \/ Failed
                  /\ ~(Committed /\ Failed)


\* C22: with two dispatches running on two threads, every dispatch has its
\* own transaction, the one its position calls for and no other: in the
\* probe a read-only one, in an attempt one read-write transaction bound to
\* its tenant, otherwise none, whatever the other dispatch opens, commits,
\* rolls back or releases; a step of one dispatch changes nothing that
\* belongs to the other, which goes on from where it was when its thread
\* runs again, so that the attempts and the outcome of a dispatch follow
\* from its own history.
ProbePositions == {"probe_lookup", "probe_exit"}

AttemptPositions == {"transaction_start", "set_context", "pop_locale", "resolve",
                     "call", "lazy", "context_exit", "commit", "except", "else",
                     "transaction_stop", "txn_exit"}

OwnTransaction(d) ==
    /\ Len(d.txns) <= 1
    /\ d.pc \in ProbePositions => (Len(d.txns) = 1 /\ d.txns[1].readonly)
    /\ d.pc \in AttemptPositions
         => /\ Len(d.txns) = 1
            /\ ~d.txns[1].readonly
            /\ d.txns[1].user = d.tenant.user
            /\ d.txns[1].context[1] = [company |-> d.tenant.company]
            /\ d.log[1] = "open"
    /\ d.pc \notin (ProbePositions \cup AttemptPositions) => d.txns = << >>

OwnOutcome(d) ==
    /\ d.attempts <= CONFIG_retry + 1
    /\ d.totals["commit"] + d.totals["rollback"] <= d.attempts
    /\ d.totals["commit"] <= 1
    /\ d.pc = "done"
         => /\ d.attempts >= 1
            /\ d.totals["transaction_start"] = d.attempts
            /\ d.totals["transaction_stop"] = d.attempts
            /\ d.totals["commit"] + d.totals["rollback"] = d.attempts
            /\ d.faults.tryTransients >= d.attempts - 1
            /\ d.outcome.kind = "returned"
                 => (d.totals["commit"] = 1 /\ d.outcome.rv.att = d.attempts)
            /\ d.outcome.kind = "raised" => d.outcome.exc.att = d.attempts

C23_InitialiseFailsFast ==
    /\ (~Truthy(app.config.SECRET_KEY) /\ app_pc # "configure")
         => /\ app_pc \in {"initialise", "failed"}
            /\ app_pc = "failed" => app_exc = "AssertionError"
            /\ app.cache = Constructed.cache
            /\ app.view_functions = {}
            /\ app.database = "none"
            /\ app.pool = "none"
            /\ app.template_context_processors = Constructed.template_context_processors
            /\ ~app.initialised
    /\ app_pc = "failed" => (~app.initialised /\ app_exc # "none")
    /\ app.initialised <=> app_pc = "ready"
    /\ app.initialised
         => /\ app_exc = "none"
            /\ Truthy(app.config.SECRET_KEY)
            /\ app.cache.backend = app.config.CACHE_TYPE
            /\ "static" \in app.view_functions
            /\ app.database = "connected"
            /\ app.pool = "initialised"
            /\ app.template_context_processors[Len(app.template_context_processors)]
                 = "nereid_default_template_ctx_processor"

C23_Witness ==
    /\ app_pc = "failed"
    /\ app.config.SECRET_KEY = ""
    /\ app.config.CACHE_TYPE = "werkzeug.contrib.cache.MemcachedCache"
    /\ app_exc = "AssertionError"
    /\ ~app.initialised

-----------------------------------------------------------------------------
\* C24

\* a module contributes a loader when it is installed and has a templates folder
Contributes(name) == name \in modules.installed /\ name \in modules.with_templates

\* the loader of the searchpath, when there is one
SearchpathLoaders ==
    IF mtl.searchpath # "None" THEN << FileSystemLoader(<< mtl.searchpath >>) >>
    ELSE << >>

\* the loaders of the contributing modules among the given ones, in their order
ModuleLoaders(names) ==
    LET contributing == SelectSeq(names, Contributes)
    IN [k \in 1..Len(contributing) |-> FileSystemLoader(TemplateDir(contributing[k]))]

\* a thread computed the loaders and returned them while no other thread
\* touched the loader
ComputedAlone(t) ==
    /\ access[t].pc = "done"
    /\ access[t].computes
    /\ \A u \in LoaderThreads \ {t} : access[u].pc = "idle"

\* C24: the loaders a thread computes are the loader of the searchpath, when
\* one is given, followed by the loaders of the installed modules that have a
\* templates folder, in the order of the module graph.
C24_LoadersInGraphOrder ==
    \A t \in LoaderThreads :
      ComputedAlone(t) =>
        access[t].result = SearchpathLoaders \o ModuleLoaders(ModuleGraph)

\* what the code computes: the modules contribute in the reverse of the order
\* of the graph
C24_LoadersInReverseGraphOrder ==
    \A t \in LoaderThreads :
      ComputedAlone(t) =>
        access[t].result = SearchpathLoaders \o ModuleLoaders(Reverse(ModuleGraph))

-----------------------------------------------------------------------------
\* C25

\* the configuration never set TEMPLATE_PREFIX_WEBSITE_NAME
PrefixLeftAtDefault == "TEMPLATE_PREFIX_WEBSITE_NAME" \notin app.set

\* C25: an application whose configuration leaves TEMPLATE_PREFIX_WEBSITE_NAME
\* alone has template_prefix_website_name False, and render_template hands
\* the template name to the LazyRenderer without the name of the website
\* before it.
C25_PrefixOffByDefault ==
    PrefixLeftAtDefault =>
      /\ app.config.TEMPLATE_PREFIX_WEBSITE_NAME = FALSE
      /\ lazy # NoLazy =>
           \A k \in 1..Len(lazy.names) : Head(lazy.names[k]) # "website_name"

\* what the code does: the default is True, and the name of a template given
\* as a string is tried with the name of the website before it first
C25_PrefixOnByDefault ==
    PrefixLeftAtDefault =>
      /\ app.config.TEMPLATE_PREFIX_WEBSITE_NAME = TRUE
      /\ lazy # NoLazy => \E t \in TemplateNames : lazy = LazyRendererOf(TRUE, t)

-----------------------------------------------------------------------------
\* C26

\* the commit of the current attempt raised the transient error
CommitRaisedTransient ==
    \E i \in 1..Len(raised) : raised[i] = Exc("transient", "commit", attempts)

\* nothing raised in the dispatch but the commit, and it the transient error
OnlyCommitTransients ==
    /\ faults.tryTransients = faults.commitTransients
    /\ \A i \in 1..Len(raised) :
         /\ raised[i].by \notin {"handler", "render", "transaction_start",
                                 "transaction_stop"}
         /\ raised[i].by = "commit" => raised[i].kind = "transient"

\* C26: a transient error raised by the commit is handled as one raised by
\* the view function: the attempt is rolled back and nothing is committed,
\* the result of the view function is not returned, and (unless an observer
\* of transaction_stop raises) the loop goes on to a new attempt while the
\* budget lasts and the error is raised otherwise; when the commit raises it
\* k times (k <= retry) and nothing else goes wrong, attempt k+1 calls the
\* view function again, in a new transaction, commits and returns its result.
C26_CommitTransientRetried ==
    /\ CommitRaisedTransient =>
         /\ raised[1] = Exc("transient", "commit", attempts)
         /\ ~Has("commit")
         /\ Has("call")
         /\ pc \in {"except", "transaction_stop", "txn_exit", "loop", "txn_start", "done"}
         /\ pc # "except" => Count("rollback") = 1
         /\ (pc \in {"transaction_stop", "txn_exit"} /\ ~StopRaised)
              => pending = IF count # 0 THEN "continue" ELSE "raise"
         /\ (pc \in {"loop", "done"} /\ ~StopRaised)
              => IF count > 0
                 THEN pc = "loop" /\ outcome.kind = "running" /\ txns = << >>
                 ELSE outcome = Raised(raised[1])
         /\ Done => outcome.kind = "raised"
    /\ ( /\ Done
         /\ EntersLoop
         /\ EndpointResolves
         /\ CONFIG_retry >= 0
         /\ OnlyCommitTransients
         /\ faults.commitTransients <= CONFIG_retry )
       => LET k == faults.commitTransients
          IN /\ attempts = k + 1
             /\ lastCall.att = k + 1
             /\ lastCall.called
             /\ outcome.kind = "returned"
             /\ outcome.rv.att = k + 1
             /\ totals["rollback"] = k
             /\ totals["commit"] = 1
             /\ Has("commit")

\* the same, for the endpoints that are not instance methods of a model
C26_CommitTransientRetriedButInstance ==
    req.url_rule.endpoint # "model_instance_method" => C26_CommitTransientRetried

-----------------------------------------------------------------------------
\* C27

\* the dispatch went through the loop and ended as the claim says: at least
\* one attempt opened its transaction, and a normal return comes after the
\* view function was called and its transaction committed in the last attempt
AttemptMade ==
    /\ attempts >= 1
    /\ totals["transaction_start"] >= 1
    /\ outcome.kind = "returned" =>
         /\ lastCall # NoCall
         /\ lastCall.called
         /\ lastCall.att = attempts
         /\ HandlerResult(outcome.rv)
         /\ Has("commit")
         /\ totals["commit"] = 1

\* C27: whatever integer CONFIG['retry'] holds, zero and negative values
\* included, a dispatch that passes routing, the OPTIONS check and the tenant
\* probe does not end without an attempt: it opens the transaction of at
\* least one attempt, and it returns normally only after the view function
\* was called and the transaction committed.
C27_AlwaysOneAttempt ==
    (Done /\ EntersLoop) => AttemptMade

\* the same for the values of CONFIG['retry'] that are not negative, and what
\* a negative value gives: no attempt at all and None returned
C27_OneAttemptIfNotNegative ==
    (Done /\ EntersLoop) =>
       IF CONFIG_retry >= 0
       THEN AttemptMade
       ELSE attempts = 0 /\ outcome = Returned(NoValue) /\ totals["commit"] = 0
            /\ lastCall = NoCall

-----------------------------------------------------------------------------
\* C28

\* the complete list of loaders, in the order the code builds it
CompleteLoaders == SearchpathLoaders \o ModuleLoaders(Packages)

\* the threads that found _loaders to be None and set out to compute it
Computing == { t \in LoaderThreads : access[t].computes }

\* C28: the loaders are computed at most once, and every access that returns
\* returns the complete list, be it made while another thread computes the
\* list for the first time or after a computation that the query ended with
\* an exception.
C28_LoadersOnceAndComplete ==
    /\ Cardinality(Computing) <= 1
    /\ \A t \in LoaderThreads :
         access[t].pc = "done" => access[t].result = CompleteLoaders

\* an access after a computation that the query ended returns the empty list
C28_EmptyAfterFailure ==
    \A t \in LoaderThreads :
      ( /\ access[t].pc = "done"
        /\ ~access[t].computes
        /\ \A u \in LoaderThreads \ {t} : access[u].pc = "raised" )
      => access[t].result = << >>

\* a single computation that no exception ends leaves the complete list,
\* to the thread that computes and to every access begun after it returned
C28_CompleteAfterOneComputation ==
    \A t \in LoaderThreads :
      (Computing = {t} /\ access[t].pc = "done")
      => /\ access[t].result = CompleteLoaders
         /\ mtl._loaders.items = CompleteLoaders

-----------------------------------------------------------------------------
\* C29

\* the latest call of _cache_support returned what the first miss rendered
\* for the entry the cache has for its key
ReturnedFirstMiss ==
    (fragment # NoFragment /\ fragment.key \in DOMAIN entries) =>
       /\ fragment.key \in DOMAIN first_miss
       /\ fragment.returned = first_miss[fragment.key]
       /\ entries[fragment.key].value = first_miss[fragment.key]

\* a call of _cache_support: a hit returns the value held and renders and
\* stores nothing; a miss renders once, adds the rendered value under the key
\* with the timeout of the call, and returns it
CallHitOrMiss ==
    fragment' # fragment =>
      LET key == fragment'.key
      IN /\ key = environment.fragment_cache_prefix \o << fragment'.name >>
         /\ IF key \in DOMAIN entries
            THEN /\ fragment'.hit
                 /\ fragment'.returned = entries[key].value
                 /\ fragment'.added = << >>
                 /\ renders' = renders
                 /\ entries' = entries
            ELSE /\ ~fragment'.hit
                 /\ renders' = renders + 1
                 /\ fragment'.returned = [body |-> fragment'.name, version |-> renders']
                 /\ fragment'.added = << [key |-> key, value |-> fragment'.returned,
                                          timeout |-> fragment'.timeout] >>
                 /\ Stores(environment.fragment_cache) =>
                      /\ DOMAIN entries' = DOMAIN entries \cup {key}
                      /\ entries'[key] = [value |-> fragment'.returned,
                                          timeout |-> fragment'.timeout]
                 /\ \A k \in DOMAIN entries : entries'[k] = entries[k]

\* C29: _cache_support looks the block up under prefix + name; when the
\* cache holds a value for the key it returns that value and renders nothing;
\* when it holds none it renders the body once, adds the rendered value under
\* the key with the timeout given, and returns it; so as long as the entry of
\* a key has not expired, every call for the key returns the value the first
\* miss rendered.
C29_FragmentCachedOnce ==
    /\ []ReturnedFirstMiss
    /\ [][CallHitOrMiss]_vars

C29_Witness ==
    /\ fragment.hit
    /\ fragment.name = "menu"
    /\ fragment.returned = [body |-> "menu", version |-> 1]
    /\ renders = 2
    /\ environment.fragment_cache_prefix = << "site", "-frag-" >>
    /\ entries[fragment.key].timeout = "60"
    /\ DOMAIN entries = {fragment.key, << "site", "-frag-", "footer" >>}

====
